---- MODULE Spec2Model ----
(***************************************************************************)
(* The INTEGER operator family of the execution engine's type system       *)
(* (integer_type.cpp): casts, comparisons, unary and binary arithmetic.    *)
(*                                                                         *)
(* Each Impl emits LLVM IR through the CodeGen; the model gives every Impl *)
(* the meaning of the IR it emits, i.e. what the compiled expression does  *)
(* when it runs on concrete 32-bit operands.  LLVM integer values are bit  *)
(* patterns: little-endian sequences of bytes (0..255).  All arithmetic is *)
(* carried out on those bytes, so that no intermediate number leaves the   *)
(* range the model checker can represent and wrap-around is explicit.      *)
(***************************************************************************)
EXTENDS Integers, Sequences, FiniteSets, TLC

VARIABLES
    pc,        \* "ready": no operator invoked; "returned": the invocation ended
    op,        \* the operator that was invoked
    left,      \* left (or only) operand: a Value
    right,     \* right operand: a Value (NoValue for unary operators and casts)
    args,      \* the numbers the operands hold at run time, left first
    on_error,  \* ctx.on_error of the InvocationContext
    from_type, \* source Type of a SupportsTypes query
    to_type,   \* destination Type of a cast or of a SupportsTypes query
    result,    \* the Value delivered to the caller (NoValue when none is)
    error,     \* the exception or fault raised ([kind |-> "None"] when none is)
    answer,    \* the boolean answer of a SupportsTypes query
    wrapper,   \* how the null-dispatch wrapper emitted the call ("none": Impl
               \* was invoked directly)
    trace,     \* the instructions of Div/Modulo's emitted code that ran, in order
    catalog,   \* the Catalog object (catalog.cpp)
    entry,     \* the row the last namespace lookup returned
    hll,       \* the hashes the HyperLogLog has been updated with
    key,       \* the string last passed to HyperLogLog::Update
    hashed     \* the log of the updates: each string with the bytes that
               \* were handed to the hash function for it

\* the state of the INTEGER operators, of the Catalog and of the HyperLogLog
typeVars == <<pc, op, left, right, args, on_error, from_type, to_type, result, error,
              answer, wrapper, trace>>
catalogVars == <<catalog, entry>>
hllVars == <<hll, key, hashed>>

vars == <<typeVars, catalogVars, hllVars>>

---------------------------------------------------------------------------
(* Bounds and program constants *)

\* Every boundary value is sampled together with its Edge nearest neighbours.
Edge == 1

INT32_MAX == 2147483647
INT32_MIN == -INT32_MAX - 1
\* peloton::type::PELOTON_INT32_NULL is the minimum value of the type
INT32_NULL == INT32_MIN

\* Values around which 32-bit arithmetic and the narrowing casts change
\* behaviour: 0, 2^7, 2^15, 2^16 and ceil(sqrt(2^31)).
Centers == {0, 128, 32768, 46341, 65536}

Int32Samples ==
    {INT32_MIN + d : d \in 0 .. Edge} \cup {INT32_MAX - d : d \in 0 .. Edge}
    \cup {c + d : c \in Centers, d \in -Edge .. Edge}
    \cup {-c + d : c \in Centers, d \in -Edge .. Edge}
    \cup {300, -300}

---------------------------------------------------------------------------
(* LLVM values as bit patterns *)

Pow256(i) == CASE i = 0 -> 1 [] i = 1 -> 256 [] i = 2 -> 65536 [] i = 3 -> 16777216

BitWidth(ty) == CASE ty = "i1" -> 1 [] ty = "i8" -> 8 [] ty = "i16" -> 16
                  [] ty = "i32" -> 32 [] ty = "i64" -> 64 [] ty = "double" -> 64

NumBytes(ty) == IF ty = "i1" THEN 1 ELSE BitWidth(ty) \div 8

\* two's complement encoding of v in n <= 4 bytes (floor division and a
\* non-negative remainder give the low bytes of negative numbers as well)
ToBytes(v, n) == [i \in 1 .. n |-> (v \div Pow256(i - 1)) % 256]

IsNegBytes(b) == b[Len(b)] >= 128

\* sign extension of a bit pattern to n bytes
SExtBytes(b, n) == b \o [i \in 1 .. (n - Len(b)) |-> IF IsNegBytes(b) THEN 255 ELSE 0]

\* zero extension of a bit pattern to n bytes
ZExtBytes(b, n) == b \o [i \in 1 .. (n - Len(b)) |-> 0]

TruncBytes(b, n) == SubSeq(b, 1, n)

RECURSIVE UnsignedLow(_, _)
UnsignedLow(b, n) == IF n = 0 THEN 0 ELSE b[n] * Pow256(n - 1) + UnsignedLow(b, n - 1)

\* the signed number a pattern of at most 4 bytes stands for
SignedBytes(b) ==
    LET n == Len(b)
        top == IF b[n] >= 128 THEN b[n] - 256 ELSE b[n]
    IN  top * Pow256(n - 1) + UnsignedLow(b, n - 1)

\* a wider pattern stands for a 32-bit number iff it is the sign extension of
\* its low 4 bytes
FitsInt32(b) == b = SExtBytes(TruncBytes(b, 4), Len(b))

RECURSIVE AddCarry(_, _, _, _)
AddCarry(x, y, i, c) ==
    IF i > Len(x) THEN <<>>
    ELSE LET s == x[i] + y[i] + c
         IN  <<s % 256>> \o AddCarry(x, y, i + 1, s \div 256)

NotBytes(y) == [i \in 1 .. Len(y) |-> 255 - y[i]]

\* x + y and x - y modulo 2^(8 * Len(x))
AddBytes(x, y) == AddCarry(x, y, 1, 0)
SubBytes(x, y) == AddCarry(x, NotBytes(y), 1, 1)

RECURSIVE MulColumn(_, _, _, _)
MulColumn(x, y, k, i) ==
    IF i > k THEN 0 ELSE x[i] * y[k + 1 - i] + MulColumn(x, y, k, i + 1)

RECURSIVE MulCarry(_, _, _, _)
MulCarry(x, y, k, c) ==
    IF k > Len(x) THEN <<>>
    ELSE LET s == MulColumn(x, y, k, 1) + c
         IN  <<s % 256>> \o MulCarry(x, y, k + 1, s \div 256)

\* x * y modulo 2^(8 * Len(x))
MulBytes(x, y) == MulCarry(x, y, 1, 0)

LLVMValue(ty, b) == [ty |-> ty, bytes |-> b]

nullptr == LLVMValue("nullptr", <<>>)

\* codegen.Const32 / codegen.ConstBool
Const32(v) == LLVMValue("i32", ToBytes(v, 4))
ConstBool(f) == LLVMValue("i1", <<IF f THEN 1 ELSE 0>>)

\* the number an i8/i16/i32 value stands for, and the truth of an i1
AsInt(x) == SignedBytes(x.bytes)
AsBool(x) == x.bytes[1] = 1

---------------------------------------------------------------------------
(* The IR instructions the operators emit, by what they compute *)

\* codegen.BoolType(), Int8Type(), Int16Type(), Int64Type(), DoubleType()
BoolType == "i1"
Int8Type == "i8"
Int16Type == "i16"
Int32Type == "i32"
Int64Type == "i64"
DoubleType == "double"

\* trunc: the low bits of the operand (the lowest bit alone for i1)
CreateTrunc(x, ty) ==
    IF ty = BoolType THEN LLVMValue(ty, <<x.bytes[1] % 2>>)
    ELSE LLVMValue(ty, TruncBytes(x.bytes, NumBytes(ty)))

\* sext: the operand's bits, the sign bit repeated above them
CreateSExt(x, ty) == LLVMValue(ty, SExtBytes(x.bytes, NumBytes(ty)))

\* sitofp i32 -> double is exact (|v| < 2^53); the double is kept as the
\* integral number it holds, written in 8 bytes of two's complement
CreateSIToFP(x, ty) == LLVMValue(ty, SExtBytes(x.bytes, NumBytes(ty)))

\* sub: wraps, no overflow flag
CreateSub(x, y) == LLVMValue(x.ty, SubBytes(x.bytes, y.bytes))

CreateICmpEQ(x, y) == ConstBool(x.bytes = y.bytes)
CreateICmpNE(x, y) == ConstBool(x.bytes # y.bytes)
CreateICmpSLT(x, y) == ConstBool(AsInt(x) < AsInt(y))
CreateICmpSLE(x, y) == ConstBool(AsInt(x) <= AsInt(y))
CreateICmpSGT(x, y) == ConstBool(AsInt(x) > AsInt(y))
CreateICmpSGE(x, y) == ConstBool(AsInt(x) >= AsInt(y))

CreateSelect(c, x, y) == IF AsBool(c) THEN x ELSE y

\* llvm.sadd/ssub/smul.with.overflow.i32: the exact result is formed in a
\* wider pattern; the result is its low 32 bits and the overflow bit says
\* that the wider pattern is not the sign extension of those 32 bits
WithOverflow(wide) ==
    [result |-> LLVMValue(Int32Type, TruncBytes(wide, 4)),
     overflow_bit |-> ConstBool(~FitsInt32(wide))]

CallAddWithOverflow(x, y) ==
    WithOverflow(AddBytes(SExtBytes(x.bytes, 5), SExtBytes(y.bytes, 5)))

CallSubWithOverflow(x, y) ==
    WithOverflow(SubBytes(SExtBytes(x.bytes, 5), SExtBytes(y.bytes, 5)))

CallMulWithOverflow(x, y) ==
    WithOverflow(MulBytes(SExtBytes(x.bytes, 8), SExtBytes(y.bytes, 8)))

\* What the hardware does with an sdiv/srem whose behaviour LLVM leaves
\* undefined (divisor 0, or INT32_MIN / -1): it faults, or it delivers the
\* wrapped quotient without faulting.
UBChoices == {"fault", "wrap"}

SDivUndefined(x, y) ==
    \/ AsInt(y) = 0
    \/ (AsInt(x) = INT32_MIN /\ AsInt(y) = -1)

\* quotient and remainder of a by b > 0, rounded toward zero
TruncQuot(a, b) == IF a < 0 /\ a % b # 0 THEN (a \div b) + 1 ELSE a \div b
TruncRem(a, b) == IF a < 0 /\ a % b # 0 THEN (a % b) - b ELSE a % b

\* sdiv: [fault, val]; the quotient rounded toward zero where it is defined
CreateSDiv(x, y, ub) ==
    LET a == AsInt(x)
        b == AsInt(y)
    IN  IF SDivUndefined(x, y)
        THEN [fault |-> ub = "fault",
              val |-> IF b = 0 THEN Const32(0) ELSE Const32(INT32_MIN)]
        ELSE [fault |-> FALSE,
              val |-> Const32(CASE b > 0 -> TruncQuot(a, b)
                                [] b = INT32_MIN -> IF a = INT32_MIN THEN 1 ELSE 0
                                [] OTHER -> -TruncQuot(a, -b))]

\* srem: [fault, val]; the remainder has the sign of the dividend
CreateSRem(x, y, ub) ==
    LET a == AsInt(x)
        b == AsInt(y)
    IN  IF SDivUndefined(x, y)
        THEN [fault |-> ub = "fault",
              val |-> IF b = 0 THEN x ELSE Const32(0)]
        ELSE [fault |-> FALSE,
              val |-> Const32(CASE b > 0 -> TruncRem(a, b)
                                [] b = INT32_MIN -> IF a = INT32_MIN THEN 0 ELSE a
                                [] OTHER -> TruncRem(a, -b))]

---------------------------------------------------------------------------
(* Types, Values, errors *)

\* type::TypeId: the ids the casts name, and DATE for the ids they do not
TypeIds == {"BOOLEAN", "TINYINT", "SMALLINT", "INTEGER", "BIGINT", "DECIMAL",
            "VARCHAR", "DATE"}

Type(type_id, nullable) == [type_id |-> type_id, nullable |-> nullable]

Types == {Type(t, n) : t \in TypeIds, n \in BOOLEAN}

\* Integer::Instance(), Boolean::Instance(), Decimal::Instance() used as a
\* Type: the non-nullable Type of the SqlType
IntegerInstance == Type("INTEGER", FALSE)
BooleanInstance == Type("BOOLEAN", FALSE)
DecimalInstance == Type("DECIMAL", FALSE)

\* Value{type, val, length, null}
Value(type, val, length, null) ==
    [type |-> type, val |-> val, length |-> length, null |-> null]

\* Value{}: no value
NoValue == Value(Type("INVALID", FALSE), nullptr, nullptr, nullptr)

\* Value::IsNull: a Value without a null handle is never null
IsNull(v) == IF v.null = nullptr THEN ConstBool(FALSE) ELSE v.null

\* Integer::GetNullValue
GetNullValue == Value(Type("INTEGER", TRUE), Const32(INT32_NULL), nullptr, ConstBool(TRUE))

OnError == {"Exception", "ReturnNull"}

Error(kind, names) == [kind |-> kind, names |-> names]
NoError == Error("None", <<>>)

\* what an invocation ends in: the error raised, if any, and the Value
\* delivered otherwise
Outcome(err, v) == [error |-> err, value |-> IF err.kind = "None" THEN v ELSE NoValue]

\* codegen.ThrowIfOverflow / ThrowIfDivideByZero: raise when the bit is set
ThrowIfOverflow(overflow_bit) ==
    IF AsBool(overflow_bit) THEN Error("ArithmeticOverflow", <<>>) ELSE NoError

ThrowIfDivideByZero(div0) ==
    IF AsBool(div0) THEN Error("DivideByZero", <<>>) ELSE NoError

\* the fault of an sdiv/srem the hardware refuses
FaultOf(r) == IF r.fault THEN Error("HardwareFault", <<>>) ELSE NoError

\* lang::If::BuildPHI: the Value of the branch that ran; the merged Value is
\* nullable and its null flag is that branch's IsNull
BuildPHI(cond, v1, v2) ==
    LET taken == IF AsBool(cond) THEN v1 ELSE v2
    IN  Value(Type(v1.type.type_id, TRUE), taken.val, nullptr, IsNull(taken))

\* Type::operator==: two Types are equal iff their SqlType and their
\* nullability match
TypeEquals(a, b) == a.type_id = b.type_id /\ a.nullable = b.nullable

\* CompareInteger::SupportsTypes: left_type is compared, as a Type, with the
\* Type made of Integer::Instance(), then with right_type
CompareSupportsTypes(left_type, right_type) ==
    TypeEquals(left_type, IntegerInstance) /\ TypeEquals(left_type, right_type)

\* Add, Sub, Mul, Div, Modulo ::SupportsTypes (the same expression in each)
ArithSupportsTypes(left_type, right_type) ==
    left_type.type_id = IntegerInstance.type_id /\ TypeEquals(left_type, right_type)

AddSupportsTypes(left_type, right_type) == ArithSupportsTypes(left_type, right_type)
SubSupportsTypes(left_type, right_type) == ArithSupportsTypes(left_type, right_type)
MulSupportsTypes(left_type, right_type) == ArithSupportsTypes(left_type, right_type)
DivSupportsTypes(left_type, right_type) == ArithSupportsTypes(left_type, right_type)
ModuloSupportsTypes(left_type, right_type) == ArithSupportsTypes(left_type, right_type)

---------------------------------------------------------------------------
(* CastInteger *)

\* SupportsTypes that follows the header comment and admits VARCHAR
CastSupportsTypes_WithVarchar(from, to) ==
    from.type_id = "INTEGER"
    /\ to.type_id \in {"BOOLEAN", "TINYINT", "SMALLINT", "INTEGER", "BIGINT",
                       "DECIMAL", "VARCHAR"}

CastSupportsTypes(from, to) ==
    IF from.type_id # "INTEGER" THEN FALSE
    ELSE CASE to.type_id = "BOOLEAN" -> TRUE
           [] to.type_id = "TINYINT" -> TRUE
           [] to.type_id = "SMALLINT" -> TRUE
           [] to.type_id = "INTEGER" -> TRUE
           [] to.type_id = "BIGINT" -> TRUE
           [] to.type_id = "DECIMAL" -> TRUE
           [] OTHER -> FALSE

\* the cast with a zero extension in the place of the sign extension
CastResult_ZExt(value, to) ==
    CASE to.type_id = "BOOLEAN" -> CreateTrunc(value.val, BoolType)
      [] to.type_id = "TINYINT" -> CreateTrunc(value.val, Int8Type)
      [] to.type_id = "SMALLINT" -> CreateTrunc(value.val, Int16Type)
      [] to.type_id = "INTEGER" -> value.val
      [] to.type_id = "BIGINT" -> LLVMValue(Int64Type, ZExtBytes(value.val.bytes, 8))
      [] to.type_id = "DECIMAL" -> CreateSIToFP(value.val, DoubleType)
      [] OTHER -> nullptr

\* the cast whose BOOLEAN is "the number is not zero"
CastResult_BoolIsNonZero(value, to) ==
    CASE to.type_id = "BOOLEAN" -> CreateICmpNE(value.val, Const32(0))
      [] to.type_id = "TINYINT" -> CreateTrunc(value.val, Int8Type)
      [] to.type_id = "SMALLINT" -> CreateTrunc(value.val, Int16Type)
      [] to.type_id = "INTEGER" -> value.val
      [] to.type_id = "BIGINT" -> CreateSExt(value.val, Int64Type)
      [] to.type_id = "DECIMAL" -> CreateSIToFP(value.val, DoubleType)
      [] OTHER -> nullptr

\* the switch of CastInteger::Impl: the converted data, or nullptr where the
\* switch throws
CastResult(value, to) ==
    CASE to.type_id = "BOOLEAN" -> CreateTrunc(value.val, BoolType)
      [] to.type_id = "TINYINT" -> CreateTrunc(value.val, Int8Type)
      [] to.type_id = "SMALLINT" -> CreateTrunc(value.val, Int16Type)
      [] to.type_id = "INTEGER" -> value.val
      [] to.type_id = "BIGINT" -> CreateSExt(value.val, Int64Type)
      [] to.type_id = "DECIMAL" -> CreateSIToFP(value.val, DoubleType)
      [] OTHER -> nullptr

\* the cast that takes the null flag from the source Type
CastImpl_SourceNullability(value, to) ==
    LET res == CastResult(value, to)
        null == IF value.type.nullable THEN ConstBool(FALSE) ELSE nullptr
    IN  IF res = nullptr
        THEN Outcome(Error("UnsupportedCast", <<value.type.type_id, to.type_id>>), NoValue)
        ELSE Outcome(NoError, Value(to, res, nullptr, null))

CastImpl(value, to) ==
    LET res == CastResult(value, to)
        null == IF to.nullable THEN ConstBool(FALSE) ELSE nullptr
    IN  IF res = nullptr
        THEN Outcome(Error("UnsupportedCast", <<value.type.type_id, to.type_id>>), NoValue)
        ELSE Outcome(NoError, Value(to, res, nullptr, null))

---------------------------------------------------------------------------
(* CompareInteger *)

\* CompareLt with the unsigned predicate (icmp ult): a pattern with the sign
\* bit set then orders above every pattern without it
CompareLtImpl_Unsigned(l, r) ==
    LET a == AsInt(l.val)
        b == AsInt(r.val)
        ult == IF (a < 0) = (b < 0) THEN a < b ELSE b < 0
    IN  Outcome(NoError, Value(BooleanInstance, ConstBool(ult), nullptr, nullptr))

CompareLtImpl(l, r) == Outcome(NoError, Value(BooleanInstance, CreateICmpSLT(l.val, r.val), nullptr, nullptr))
CompareLteImpl(l, r) == Outcome(NoError, Value(BooleanInstance, CreateICmpSLE(l.val, r.val), nullptr, nullptr))
CompareEqImpl(l, r) == Outcome(NoError, Value(BooleanInstance, CreateICmpEQ(l.val, r.val), nullptr, nullptr))
CompareNeImpl(l, r) == Outcome(NoError, Value(BooleanInstance, CreateICmpNE(l.val, r.val), nullptr, nullptr))
CompareGtImpl(l, r) == Outcome(NoError, Value(BooleanInstance, CreateICmpSGT(l.val, r.val), nullptr, nullptr))
CompareGteImpl(l, r) == Outcome(NoError, Value(BooleanInstance, CreateICmpSGE(l.val, r.val), nullptr, nullptr))

\* CompareForSort that subtracts the left operand from the right one
CompareForSortImpl_Reversed(l, r) ==
    LET diff == CreateSub(r.val, l.val)
    IN  Outcome(NoError, Value(IntegerInstance, diff, nullptr, nullptr))

CompareForSortImpl(l, r) ==
    LET diff == CreateSub(l.val, r.val)
    IN  Outcome(NoError, Value(IntegerInstance, diff, nullptr, nullptr))

---------------------------------------------------------------------------
(* Binary operators *)

\* Add with the subtraction primitive in the place of the addition
AddImpl_CallsSub(l, r, ctx) ==
    LET ar == CallSubWithOverflow(l.val, r.val)
        err == IF ctx = "Exception" THEN ThrowIfOverflow(ar.overflow_bit) ELSE NoError
    IN  Outcome(err, Value(IntegerInstance, ar.result, nullptr, nullptr))

AddImpl(l, r, ctx) ==
    LET ar == CallAddWithOverflow(l.val, r.val)
        err == IF ctx = "Exception" THEN ThrowIfOverflow(ar.overflow_bit) ELSE NoError
    IN  Outcome(err, Value(IntegerInstance, ar.result, nullptr, nullptr))

\* Sub that answers an overflow with the SQL null under the null policy
SubImpl_NullOnOverflow(l, r, ctx) ==
    LET ar == CallSubWithOverflow(l.val, r.val)
        err == IF ctx = "Exception" THEN ThrowIfOverflow(ar.overflow_bit) ELSE NoError
    IN  IF ctx = "ReturnNull" /\ AsBool(ar.overflow_bit)
        THEN Outcome(NoError, GetNullValue)
        ELSE Outcome(err, Value(IntegerInstance, ar.result, nullptr, nullptr))

SubImpl(l, r, ctx) ==
    LET ar == CallSubWithOverflow(l.val, r.val)
        err == IF ctx = "Exception" THEN ThrowIfOverflow(ar.overflow_bit) ELSE NoError
    IN  Outcome(err, Value(IntegerInstance, ar.result, nullptr, nullptr))

\* Mul that never looks at the overflow bit
MulImpl_NoCheck(l, r, ctx) ==
    LET ar == CallMulWithOverflow(l.val, r.val)
    IN  Outcome(NoError, Value(IntegerInstance, ar.result, nullptr, nullptr))

MulImpl(l, r, ctx) ==
    LET ar == CallMulWithOverflow(l.val, r.val)
        err == IF ctx = "Exception" THEN ThrowIfOverflow(ar.overflow_bit) ELSE NoError
    IN  Outcome(err, Value(IntegerInstance, ar.result, nullptr, nullptr))

\* Div whose merge takes the two branch values in the wrong order
DivImpl_PhiSwapped(l, r, ctx, ub) ==
    LET div0 == CreateICmpEQ(r.val, Const32(0))
        quot == CreateSDiv(l.val, r.val, ub)
        division_result == Value(IntegerInstance, quot.val, nullptr, nullptr)
    IN  CASE ctx = "ReturnNull" ->
               IF AsBool(div0)
               THEN Outcome(NoError, BuildPHI(div0, division_result, GetNullValue))
               ELSE Outcome(FaultOf(quot), BuildPHI(div0, division_result, GetNullValue))
          [] ctx = "Exception" ->
               IF ThrowIfDivideByZero(div0) # NoError
               THEN Outcome(ThrowIfDivideByZero(div0), NoValue)
               ELSE Outcome(FaultOf(quot), division_result)
          [] OTHER -> Outcome(NoError, Value(IntegerInstance, nullptr, nullptr, nullptr))

\* ub: what the hardware does should the emitted sdiv be undefined
DivImpl(l, r, ctx, ub) ==
    LET div0 == CreateICmpEQ(r.val, Const32(0))
        quot == CreateSDiv(l.val, r.val, ub)
        division_result == Value(IntegerInstance, quot.val, nullptr, nullptr)
    IN  CASE ctx = "ReturnNull" ->
               IF AsBool(div0)
               THEN Outcome(NoError, BuildPHI(div0, GetNullValue, division_result))
               ELSE Outcome(FaultOf(quot), BuildPHI(div0, GetNullValue, division_result))
          [] ctx = "Exception" ->
               IF ThrowIfDivideByZero(div0) # NoError
               THEN Outcome(ThrowIfDivideByZero(div0), NoValue)
               ELSE Outcome(FaultOf(quot), division_result)
          [] OTHER -> Outcome(NoError, Value(IntegerInstance, nullptr, nullptr, nullptr))

ModuloImpl(l, r, ctx, ub) ==
    LET div0 == CreateICmpEQ(r.val, Const32(0))
        rem == CreateSRem(l.val, r.val, ub)
        division_result == Value(IntegerInstance, rem.val, nullptr, nullptr)
    IN  CASE ctx = "ReturnNull" ->
               IF AsBool(div0)
               THEN Outcome(NoError, BuildPHI(div0, GetNullValue, division_result))
               ELSE Outcome(FaultOf(rem), BuildPHI(div0, GetNullValue, division_result))
          [] ctx = "Exception" ->
               IF ThrowIfDivideByZero(div0) # NoError
               THEN Outcome(ThrowIfDivideByZero(div0), NoValue)
               ELSE Outcome(FaultOf(rem), division_result)
          [] OTHER -> Outcome(NoError, Value(IntegerInstance, nullptr, nullptr, nullptr))

\* one executed instruction of the emitted code, with its operands
Instr(opcode, operands) == [opcode |-> opcode, operands |-> operands]

\* division code that computes the quotient ahead of the test on the divisor
Executed_Speculated(prim, l, r, ctx, ub) ==
    LET div0 == CreateICmpEQ(r.val, Const32(0))
        test == Instr("icmp eq", <<AsInt(r.val), 0>>)
        divide == Instr(prim, <<AsInt(l.val), AsInt(r.val)>>)
    IN  CASE ctx = "ReturnNull" ->
               <<divide, test, Instr("select", <<>>)>>
          [] ctx = "Exception" ->
               <<divide, test, Instr("ThrowIfDivideByZero", <<>>)>>
          [] OTHER -> <<test>>

\* the instructions that run, in order, when the code Div::Impl (prim "sdiv")
\* or Modulo::Impl (prim "srem") emitted is executed on l and r: the test on
\* the divisor, then either the If with the primitive in its else block and
\* the phi at the merge, or the check that throws and the primitive after it
Executed(prim, l, r, ctx, ub) ==
    LET div0 == CreateICmpEQ(r.val, Const32(0))
        test == Instr("icmp eq", <<AsInt(r.val), 0>>)
        divide == Instr(prim, <<AsInt(l.val), AsInt(r.val)>>)
        faults == SDivUndefined(l.val, r.val) /\ ub = "fault"
    IN  CASE ctx = "ReturnNull" ->
               <<test, Instr("br", <<>>)>>
               \o (IF AsBool(div0)
                   THEN <<Instr("then: GetNullValue", <<>>), Instr("phi", <<>>)>>
                   ELSE IF faults
                        THEN <<Instr("else", <<>>), divide>>
                        ELSE <<Instr("else", <<>>), divide, Instr("phi", <<>>)>>)
          [] ctx = "Exception" ->
               <<test, Instr("ThrowIfDivideByZero", <<>>)>>
               \o (IF AsBool(div0) THEN <<>> ELSE <<divide>>)
          [] OTHER -> <<test>>

---------------------------------------------------------------------------
(* Unary operators *)

\* Abs: the subtraction 0 - val is emitted (and its overflow check runs)
\* whatever the sign of val; the select picks its result when val < 0
\* Abs whose subtraction never raises, whatever the caller's policy
AbsImpl_NeverRaises(val, ctx) ==
    LET zero == Value(IntegerInstance, Const32(0), nullptr, nullptr)
        sub_result == SubImpl(zero, val, "ReturnNull")
        lt_zero == CreateICmpSLT(val.val, zero.val)
        raw_ret == CreateSelect(lt_zero, sub_result.value.val, val.val)
    IN  Outcome(sub_result.error, Value(IntegerInstance, raw_ret, nullptr, nullptr))

AbsImpl(val, ctx) ==
    LET zero == Value(IntegerInstance, Const32(0), nullptr, nullptr)
        sub_result == SubImpl(zero, val, ctx)
        lt_zero == CreateICmpSLT(val.val, zero.val)
        raw_ret == CreateSelect(lt_zero, sub_result.value.val, val.val)
    IN  Outcome(sub_result.error, Value(IntegerInstance, raw_ret, nullptr, nullptr))

\* Negate that checks for overflow only under the Exception policy
NegateImpl_HonoursPolicy(val, ctx) ==
    LET ar == CallSubWithOverflow(Const32(0), val.val)
        err == IF ctx = "Exception" THEN ThrowIfOverflow(ar.overflow_bit) ELSE NoError
    IN  Outcome(err, Value(IntegerInstance, ar.result, nullptr, nullptr))

\* Negate: ctx is unused; the overflow check is emitted under every policy
NegateImpl(val, ctx) ==
    LET ar == CallSubWithOverflow(Const32(0), val.val)
        err == ThrowIfOverflow(ar.overflow_bit)
    IN  Outcome(err, Value(IntegerInstance, ar.result, nullptr, nullptr))

\* codegen.Sqrt: the square root of a double, kept as a term over its operand
CodegenSqrt(x) == [ty |-> DoubleType, bytes |-> x.bytes, fn |-> "sqrt"]

\* Floor and Ceil of an INTEGER: the cast to DECIMAL
FloorImpl(val, ctx) == CastImpl(val, DecimalInstance)

CeilImpl(val, ctx) == CastImpl(val, DecimalInstance)

\* Sqrt: the cast to DECIMAL, then the floating square root
SqrtImpl(val, ctx) ==
    LET casted == CastImpl(val, DecimalInstance)
        raw_ret == CodegenSqrt(casted.value.val)
    IN  Outcome(casted.error, Value(DecimalInstance, raw_ret, nullptr, nullptr))

---------------------------------------------------------------------------
(* Null-dispatch wrappers: TypeSystem::UnaryOperatorHandleNull and
   TypeSystem::BinaryOperatorHandleNull, the bases of the operators above *)

\* the two ways a wrapper may emit the call on operands that carry a null
\* handle: a branch on IsNull merged by a phi, or both results computed
\* unconditionally and merged by a select
Strategies == {"branch", "eager"}

\* SqlType::GetNullValue of the operator's result type; the data of a null
\* is the INTEGER null constant for INTEGER and unconstrained otherwise
NullValueOf(type) ==
    IF type.type_id = "INTEGER"
    THEN GetNullValue
    ELSE Value(Type(type.type_id, TRUE), LLVMValue(DoubleType, <<>>), nullptr, ConstBool(TRUE))

\* whether any operand carries a null handle, and the disjunction of the
\* operands' IsNull
CarriesNullHandle(operands) == \E i \in DOMAIN operands : operands[i].null # nullptr

AnyNull(operands) == ConstBool(\E i \in DOMAIN operands : AsBool(IsNull(operands[i])))

\* Eval of a wrapped operator: out is the outcome of the concrete Impl on the
\* operands' data, which runs in the else block only (branch) or
\* unconditionally (eager)
HandleNull(strategy, operands, result_type, out) ==
    LET is_null == AnyNull(operands)
        null_val == NullValueOf(result_type)
    IN  CASE ~CarriesNullHandle(operands) -> out
          [] strategy = "branch" ->
               IF AsBool(is_null)
               THEN Outcome(NoError, BuildPHI(is_null, null_val, null_val))
               ELSE Outcome(out.error, BuildPHI(is_null, null_val, out.value))
          [] OTHER ->
               Outcome(out.error,
                       Value(Type(result_type.type_id, TRUE),
                             CreateSelect(is_null, null_val.val, out.value.val),
                             nullptr,
                             ConstBool(AsBool(is_null) \/ AsBool(IsNull(out.value)))))

---------------------------------------------------------------------------
(* Catalog *)

\* no Catalog has been constructed; no lookup has been made
NoCatalog == [constructed |-> FALSE]
NoEntry == [found |-> FALSE, name |-> ""]

\* the first oid of a Catalog
START_OID == 1001

\* the oid of the default database "terrier", kept as a name
DEFAULT_DATABASE_OID == "DEFAULT_DATABASE_OID"

\* std::unordered_map: the empty map, and operator[] used to store
EmptyMap == [k \in {} |-> k]

Put(map, k, v) == [x \in DOMAIN map \cup {k} |-> IF x = k THEN v ELSE map[x]]

\* Schema::Column, storage::SqlTable, SqlTable::Insert; a row maps the oid of
\* each column to the value stored under it
Column(name, oid) == [name |-> name, oid |-> oid]

SqlTable(oid, cols) == [oid |-> oid, cols |-> cols, rows |-> <<>>]

NoTable == SqlTable(0, <<>>)

Insert(table, row) == [table EXCEPT !.rows = Append(@, row)]

\* the Catalog as its constructor's initialiser list leaves it; issued is
\* the log of the oids handed out so far, with the kind each was handed out as
NewCatalog ==
    [constructed |-> TRUE,
     oid_ |-> START_OID,
     issued |-> <<>>,
     pg_database_ |-> NoTable,
     pg_tablespace_ |-> NoTable,
     map_ |-> EmptyMap,
     name_map_ |-> EmptyMap]

\* return kind_oid_t(oid_++): the oid handed out and the Catalog after it
NextOid(c, kind) ==
    [catalog |-> [c EXCEPT !.oid_ = @ + 1,
                           !.issued = Append(@, [kind |-> kind, oid |-> c.oid_])],
     oid |-> c.oid_]

\* a column allocator that hands out the current oid and leaves the counter
GetNextColOid_Repeats(c) ==
    [catalog |-> [c EXCEPT !.issued = Append(@, [kind |-> "col", oid |-> c.oid_])],
     oid |-> c.oid_]

GetNextDBOid(c) == NextOid(c, "db")

GetNextNamepsaceOid(c) == NextOid(c, "namespace")

GetNextTableOid(c) == NextOid(c, "table")

GetNextColOid(c) == NextOid(c, "col")

CreatePGDatabase(c, table_oid) ==
    LET oid_col == GetNextColOid(c)
        datname_col == GetNextColOid(oid_col.catalog)
        cols == <<Column("oid", oid_col.oid), Column("datname", datname_col.oid)>>
        terrier_oid == DEFAULT_DATABASE_OID
        insert == (cols[1].oid :> terrier_oid) @@ (cols[2].oid :> 12345)
    IN  [datname_col.catalog EXCEPT
            !.pg_database_ = Insert(SqlTable(table_oid, cols), insert),
            !.map_ = Put(@, terrier_oid, EmptyMap)]

CreatePGTablespace(c, table_oid) ==
    LET spcname_col == GetNextColOid(c)
        cols == <<Column("spcname", spcname_col.oid)>>
        pg_global == (cols[1].oid :> 11111)
        pg_default == (cols[1].oid :> 22222)
    IN  [spcname_col.catalog EXCEPT
            !.pg_tablespace_ = Insert(Insert(SqlTable(table_oid, cols), pg_global),
                                      pg_default)]

BootstrapDatabase(c, db_oid) ==
    LET pg_namespace_oid == GetNextTableOid(c)
        oid_col == GetNextColOid(pg_namespace_oid.catalog)
        nspname_col == GetNextColOid(oid_col.catalog)
        cols == <<Column("oid", oid_col.oid), Column("nspname", nspname_col.oid)>>
        namespace_oid == GetNextNamepsaceOid(nspname_col.catalog)
        insert == (cols[1].oid :> namespace_oid.oid) @@ (cols[2].oid :> 22222)
        pg_namespace == Insert(SqlTable(pg_namespace_oid.oid, cols), insert)
    IN  [namespace_oid.catalog EXCEPT
            !.map_ = Put(@, db_oid, Put(@[db_oid], pg_namespace_oid.oid, pg_namespace)),
            !.name_map_ = Put(@, db_oid, ("pg_namespace" :> pg_namespace_oid.oid))]

\* the argument GetNextTableOid() is evaluated before the call it is passed to
Bootstrap(c) ==
    LET pg_database_oid == GetNextTableOid(c)
        with_database == CreatePGDatabase(pg_database_oid.catalog, pg_database_oid.oid)
        pg_tablespace_oid == GetNextTableOid(with_database)
        with_tablespace == CreatePGTablespace(pg_tablespace_oid.catalog, pg_tablespace_oid.oid)
    IN  BootstrapDatabase(with_tablespace, DEFAULT_DATABASE_OID)

\* Catalog::GetDatabaseCatalog(db_oid, table_name)
GetDatabaseCatalog(c, db_oid, table_name) == c.map_[db_oid][c.name_map_[db_oid][table_name]]

\* the number that stands in pg_namespace for a namespace's name
NspnameOf(name) == IF name = "pg_catalog" THEN 22222 ELSE 0

\* the value a row holds under the column of this name
GetValue(table, row, col_name) ==
    LET col == CHOOSE col \in {table.cols[i] : i \in DOMAIN table.cols} : col.name = col_name
    IN  row[col.oid]

\* DatabaseHandle::GetNamespaceHandle, NamespaceHandle::GetNamespaceEntry: the
\* row of the database's pg_namespace whose nspname is that of the name
GetNamespaceEntry(c, db_oid, name) ==
    LET pg_namespace == GetDatabaseCatalog(c, db_oid, "pg_namespace")
        matching == {i \in DOMAIN pg_namespace.rows :
                        GetValue(pg_namespace, pg_namespace.rows[i], "nspname") = NspnameOf(name)}
    IN  IF matching = {}
        THEN [found |-> FALSE, name |-> name]
        ELSE LET row == pg_namespace.rows[CHOOSE i \in matching : TRUE]
             IN  [found |-> TRUE, name |-> name,
                  oid |-> GetValue(pg_namespace, row, "oid"),
                  nspname |-> GetValue(pg_namespace, row, "nspname")]

---------------------------------------------------------------------------
(* HyperLogLog *)

\* sizeof(str.size()): the size of a size_t
SizeofSizeT == 8

\* the longest string given to Update
MaxLen == 9

\* std::string values: n characters 'a', the last of them possibly 'b'
Content(n, last) == [i \in 1 .. n |-> IF i = n THEN last ELSE 97]

Strings == {Content(n, last) : n \in 0 .. MaxLen, last \in {97, 98}}

\* what a byte past the terminator of a string's buffer may hold
GarbageBytes == {0, 255}

\* the memory at str.data(): the content, the terminating NUL, and past it
\* bytes that the string never wrote
Memory(str, garbage) == str \o <<0>> \o [i \in 1 .. SizeofSizeT |-> garbage]

\* MurmurHash3_x64_128(key, length, 0, hash), hash[0]: a function of the
\* length bytes at key and of nothing else
MurmurHash3(memory, length) == [hash_of |-> SubSeq(memory, 1, length)]

\* Update(const std::string &): UpdateKey(str.data(), sizeof(str.size())),
\* and UpdateKey's hll_->Update(hash[0])
UpdateString(h, str, garbage) ==
    LET memory == Memory(str, garbage)
        length == SizeofSizeT
    IN  [hll |-> h \cup {MurmurHash3(memory, length)},
         read |-> SubSeq(memory, 1, length)]

---------------------------------------------------------------------------
(* The state machine: a caller invokes one operator after another *)

\* an INTEGER operand holding the number v
IntValue(v) == Value(IntegerInstance, Const32(v), nullptr, nullptr)

Init ==
    /\ pc = "ready"
    /\ op = "none"
    /\ left = NoValue
    /\ right = NoValue
    /\ args = <<>>
    /\ on_error = "Exception"
    /\ from_type = IntegerInstance
    /\ to_type = IntegerInstance
    /\ result = NoValue
    /\ error = NoError
    /\ answer = FALSE
    /\ wrapper = "none"
    /\ trace = <<>>
    /\ catalog = NoCatalog
    /\ entry = NoEntry
    /\ hll = {}
    /\ key = <<>>
    /\ hashed = <<>>

\* the invocation of operator name on the operands holding the numbers ns,
\* under ctx, ends in out
InvokeTraced(name, ns, ctx, to, out, tr) ==
    /\ pc' = "returned"
    /\ op' = name
    /\ args' = ns
    /\ left' = IntValue(ns[1])
    /\ right' = IF Len(ns) = 2 THEN IntValue(ns[2]) ELSE NoValue
    /\ on_error' = ctx
    /\ to_type' = to
    /\ result' = out.value
    /\ error' = out.error
    /\ wrapper' = "none"
    /\ trace' = tr
    /\ UNCHANGED <<from_type, answer>>
    /\ UNCHANGED <<catalogVars, hllVars>>

Invoke(name, ns, ctx, to, out) == InvokeTraced(name, ns, ctx, to, out, <<>>)

CastSupports ==
    /\ pc = "ready"
    /\ \E from \in Types, to \in Types :
        /\ pc' = "returned"
        /\ op' = "CastSupportsTypes"
        /\ from_type' = from
        /\ to_type' = to
        /\ answer' = CastSupportsTypes(from, to)
        /\ UNCHANGED <<left, right, args, on_error, result, error, wrapper, trace>>
        /\ UNCHANGED <<catalogVars, hllVars>>

\* a caller asks an operator whether it supports a pair of operand Types
Supports(name, left_type, right_type, supported) ==
    /\ pc' = "returned"
    /\ op' = name
    /\ from_type' = left_type
    /\ to_type' = right_type
    /\ answer' = supported
    /\ UNCHANGED <<left, right, args, on_error, result, error, wrapper, trace>>
    /\ UNCHANGED <<catalogVars, hllVars>>

CompareSupports ==
    /\ pc = "ready"
    /\ \E l \in Types, r \in Types :
        Supports("CompareSupportsTypes", l, r, CompareSupportsTypes(l, r))

AddSupports ==
    /\ pc = "ready"
    /\ \E l \in Types, r \in Types :
        Supports("AddSupportsTypes", l, r, AddSupportsTypes(l, r))

SubSupports ==
    /\ pc = "ready"
    /\ \E l \in Types, r \in Types :
        Supports("SubSupportsTypes", l, r, SubSupportsTypes(l, r))

MulSupports ==
    /\ pc = "ready"
    /\ \E l \in Types, r \in Types :
        Supports("MulSupportsTypes", l, r, MulSupportsTypes(l, r))

DivSupports ==
    /\ pc = "ready"
    /\ \E l \in Types, r \in Types :
        Supports("DivSupportsTypes", l, r, DivSupportsTypes(l, r))

ModuloSupports ==
    /\ pc = "ready"
    /\ \E l \in Types, r \in Types :
        Supports("ModuloSupportsTypes", l, r, ModuloSupportsTypes(l, r))

Cast ==
    /\ pc = "ready"
    /\ \E v \in Int32Samples, to \in Types :
        Invoke("Cast", <<v>>, "Exception", to, CastImpl(IntValue(v), to))

CompareLt ==
    /\ pc = "ready"
    /\ \E a \in Int32Samples, b \in Int32Samples :
        Invoke("CompareLt", <<a, b>>, "Exception", IntegerInstance,
               CompareLtImpl(IntValue(a), IntValue(b)))

CompareLte ==
    /\ pc = "ready"
    /\ \E a \in Int32Samples, b \in Int32Samples :
        Invoke("CompareLte", <<a, b>>, "Exception", IntegerInstance,
               CompareLteImpl(IntValue(a), IntValue(b)))

CompareEq ==
    /\ pc = "ready"
    /\ \E a \in Int32Samples, b \in Int32Samples :
        Invoke("CompareEq", <<a, b>>, "Exception", IntegerInstance,
               CompareEqImpl(IntValue(a), IntValue(b)))

CompareNe ==
    /\ pc = "ready"
    /\ \E a \in Int32Samples, b \in Int32Samples :
        Invoke("CompareNe", <<a, b>>, "Exception", IntegerInstance,
               CompareNeImpl(IntValue(a), IntValue(b)))

CompareGt ==
    /\ pc = "ready"
    /\ \E a \in Int32Samples, b \in Int32Samples :
        Invoke("CompareGt", <<a, b>>, "Exception", IntegerInstance,
               CompareGtImpl(IntValue(a), IntValue(b)))

CompareGte ==
    /\ pc = "ready"
    /\ \E a \in Int32Samples, b \in Int32Samples :
        Invoke("CompareGte", <<a, b>>, "Exception", IntegerInstance,
               CompareGteImpl(IntValue(a), IntValue(b)))

CompareForSort ==
    /\ pc = "ready"
    /\ \E a \in Int32Samples, b \in Int32Samples :
        Invoke("CompareForSort", <<a, b>>, "Exception", IntegerInstance,
               CompareForSortImpl(IntValue(a), IntValue(b)))

Add ==
    /\ pc = "ready"
    /\ \E a \in Int32Samples, b \in Int32Samples, ctx \in OnError :
        Invoke("Add", <<a, b>>, ctx, IntegerInstance,
               AddImpl(IntValue(a), IntValue(b), ctx))

Sub ==
    /\ pc = "ready"
    /\ \E a \in Int32Samples, b \in Int32Samples, ctx \in OnError :
        Invoke("Sub", <<a, b>>, ctx, IntegerInstance,
               SubImpl(IntValue(a), IntValue(b), ctx))

Mul ==
    /\ pc = "ready"
    /\ \E a \in Int32Samples, b \in Int32Samples, ctx \in OnError :
        Invoke("Mul", <<a, b>>, ctx, IntegerInstance,
               MulImpl(IntValue(a), IntValue(b), ctx))

Div ==
    /\ pc = "ready"
    /\ \E a \in Int32Samples, b \in Int32Samples, ctx \in OnError, ub \in UBChoices :
        InvokeTraced("Div", <<a, b>>, ctx, IntegerInstance,
                     DivImpl(IntValue(a), IntValue(b), ctx, ub),
                     Executed("sdiv", IntValue(a), IntValue(b), ctx, ub))

Modulo ==
    /\ pc = "ready"
    /\ \E a \in Int32Samples, b \in Int32Samples, ctx \in OnError, ub \in UBChoices :
        InvokeTraced("Modulo", <<a, b>>, ctx, IntegerInstance,
                     ModuloImpl(IntValue(a), IntValue(b), ctx, ub),
                     Executed("srem", IntValue(a), IntValue(b), ctx, ub))

Abs ==
    /\ pc = "ready"
    /\ \E v \in Int32Samples, ctx \in OnError :
        Invoke("Abs", <<v>>, ctx, IntegerInstance, AbsImpl(IntValue(v), ctx))

Negate ==
    /\ pc = "ready"
    /\ \E v \in Int32Samples, ctx \in OnError :
        Invoke("Negate", <<v>>, ctx, IntegerInstance, NegateImpl(IntValue(v), ctx))

\* an operand as the caller hands it to a wrapped operator: INTEGER data with
\* no null handle, or with a null handle that is false or true at run time
NullFlags == {"absent", "false", "true"}

Operand(data, flag) ==
    Value(Type("INTEGER", flag # "absent"), Const32(data), nullptr,
          CASE flag = "absent" -> nullptr
            [] flag = "false" -> ConstBool(FALSE)
            [] OTHER -> ConstBool(TRUE))

\* the data of the operands of the wrapped binary operators
OperandSamples == {INT32_NULL, -1, 0, 1, INT32_MAX}

\* a caller invokes a wrapped operator through Eval
Eval(name, operands, ctx, strategy, result_type, out) ==
    LET res == HandleNull(strategy, operands, result_type, out)
    IN  /\ pc' = "returned"
        /\ op' = name
        /\ args' = [i \in DOMAIN operands |-> AsInt(operands[i].val)]
        /\ left' = operands[1]
        /\ right' = IF Len(operands) = 2 THEN operands[2] ELSE NoValue
        /\ on_error' = ctx
        /\ to_type' = result_type
        /\ result' = res.value
        /\ error' = res.error
        /\ wrapper' = IF CarriesNullHandle(operands) THEN strategy ELSE "direct"
        /\ trace' = <<>>
        /\ UNCHANGED <<from_type, answer>>
        /\ UNCHANGED <<catalogVars, hllVars>>

NegateEval ==
    /\ pc = "ready"
    /\ \E v \in Int32Samples, f \in NullFlags, ctx \in OnError, st \in Strategies :
        Eval("NegateEval", <<Operand(v, f)>>, ctx, st, IntegerInstance,
             NegateImpl(Operand(v, f), ctx))

AbsEval ==
    /\ pc = "ready"
    /\ \E v \in Int32Samples, f \in NullFlags, ctx \in OnError, st \in Strategies :
        Eval("AbsEval", <<Operand(v, f)>>, ctx, st, IntegerInstance,
             AbsImpl(Operand(v, f), ctx))

CeilEval ==
    /\ pc = "ready"
    /\ \E v \in Int32Samples, f \in NullFlags, ctx \in OnError, st \in Strategies :
        Eval("CeilEval", <<Operand(v, f)>>, ctx, st, DecimalInstance,
             CeilImpl(Operand(v, f), ctx))

FloorEval ==
    /\ pc = "ready"
    /\ \E v \in Int32Samples, f \in NullFlags, ctx \in OnError, st \in Strategies :
        Eval("FloorEval", <<Operand(v, f)>>, ctx, st, DecimalInstance,
             FloorImpl(Operand(v, f), ctx))

SqrtEval ==
    /\ pc = "ready"
    /\ \E v \in Int32Samples, f \in NullFlags, ctx \in OnError, st \in Strategies :
        Eval("SqrtEval", <<Operand(v, f)>>, ctx, st, DecimalInstance,
             SqrtImpl(Operand(v, f), ctx))

AddEval ==
    /\ pc = "ready"
    /\ \E a \in OperandSamples, b \in OperandSamples, f \in NullFlags, g \in NullFlags,
          ctx \in OnError, st \in Strategies :
        Eval("AddEval", <<Operand(a, f), Operand(b, g)>>, ctx, st, IntegerInstance,
             AddImpl(Operand(a, f), Operand(b, g), ctx))

SubEval ==
    /\ pc = "ready"
    /\ \E a \in OperandSamples, b \in OperandSamples, f \in NullFlags, g \in NullFlags,
          ctx \in OnError, st \in Strategies :
        Eval("SubEval", <<Operand(a, f), Operand(b, g)>>, ctx, st, IntegerInstance,
             SubImpl(Operand(a, f), Operand(b, g), ctx))

MulEval ==
    /\ pc = "ready"
    /\ \E a \in OperandSamples, b \in OperandSamples, f \in NullFlags, g \in NullFlags,
          ctx \in OnError, st \in Strategies :
        Eval("MulEval", <<Operand(a, f), Operand(b, g)>>, ctx, st, IntegerInstance,
             MulImpl(Operand(a, f), Operand(b, g), ctx))

DivEval ==
    /\ pc = "ready"
    /\ \E a \in OperandSamples, b \in OperandSamples, f \in NullFlags, g \in NullFlags,
          ctx \in OnError, st \in Strategies, ub \in UBChoices :
        Eval("DivEval", <<Operand(a, f), Operand(b, g)>>, ctx, st, IntegerInstance,
             DivImpl(Operand(a, f), Operand(b, g), ctx, ub))

ModuloEval ==
    /\ pc = "ready"
    /\ \E a \in OperandSamples, b \in OperandSamples, f \in NullFlags, g \in NullFlags,
          ctx \in OnError, st \in Strategies, ub \in UBChoices :
        Eval("ModuloEval", <<Operand(a, f), Operand(b, g)>>, ctx, st, IntegerInstance,
             ModuloImpl(Operand(a, f), Operand(b, g), ctx, ub))

\* the caller takes the outcome and is ready for its next invocation
Return ==
    /\ pc = "returned"
    /\ pc' = "ready"
    /\ op' = "none"
    /\ left' = NoValue
    /\ right' = NoValue
    /\ args' = <<>>
    /\ on_error' = "Exception"
    /\ from_type' = IntegerInstance
    /\ to_type' = IntegerInstance
    /\ result' = NoValue
    /\ error' = NoError
    /\ answer' = FALSE
    /\ wrapper' = "none"
    /\ trace' = <<>>
    /\ UNCHANGED <<catalogVars, hllVars>>

Next ==
    \/ CastSupports
    \/ Cast
    \/ CompareLt
    \/ CompareLte
    \/ CompareEq
    \/ CompareNe
    \/ CompareGt
    \/ CompareGte
    \/ CompareForSort
    \/ Add
    \/ Sub
    \/ Mul
    \/ Div
    \/ Modulo
    \/ Abs
    \/ Negate
    \/ CompareSupports
    \/ AddSupports
    \/ SubSupports
    \/ MulSupports
    \/ DivSupports
    \/ ModuloSupports
    \/ NegateEval
    \/ AbsEval
    \/ CeilEval
    \/ FloorEval
    \/ SqrtEval
    \/ AddEval
    \/ SubEval
    \/ MulEval
    \/ DivEval
    \/ ModuloEval
    \/ Return

Spec == Init /\ [][Next]_vars

---------------------------------------------------------------------------
(* The Catalog: it is constructed, its callers draw oids and look up
   namespaces, and it is deleted *)

\* how many oids callers draw after the bootstrap
MaxCalls == 3

BootstrapCalls == Len(Bootstrap(NewCatalog).issued)

\* new catalog::Catalog(txn_manager_): the constructor runs Bootstrap
Construct ==
    /\ ~catalog.constructed
    /\ catalog' = Bootstrap(NewCatalog)
    /\ UNCHANGED <<entry, typeVars, hllVars>>

Draw(alloc) ==
    /\ catalog' = alloc.catalog
    /\ UNCHANGED <<entry, typeVars, hllVars>>

CanDraw ==
    /\ catalog.constructed
    /\ Len(catalog.issued) < BootstrapCalls + MaxCalls

NextDBOid == CanDraw /\ Draw(GetNextDBOid(catalog))

NextNamepsaceOid == CanDraw /\ Draw(GetNextNamepsaceOid(catalog))

NextTableOid == CanDraw /\ Draw(GetNextTableOid(catalog))

NextColOid == CanDraw /\ Draw(GetNextColOid(catalog))

NamespaceNames == {"pg_catalog", "public"}

\* GetDatabaseHandle(DEFAULT_DATABASE_OID).GetNamespaceHandle()
\*     .GetNamespaceEntry(txn, name)
LookupNamespace ==
    /\ catalog.constructed
    /\ \E name \in NamespaceNames :
        entry' = GetNamespaceEntry(catalog, DEFAULT_DATABASE_OID, name)
    /\ UNCHANGED <<catalog, typeVars, hllVars>>

\* delete catalog_
Delete ==
    /\ catalog.constructed
    /\ catalog' = NoCatalog
    /\ entry' = NoEntry
    /\ UNCHANGED <<typeVars, hllVars>>

CatalogNext ==
    \/ Construct
    \/ NextDBOid
    \/ NextNamepsaceOid
    \/ NextTableOid
    \/ NextColOid
    \/ LookupNamespace
    \/ Delete

CatalogSpec == Init /\ [][CatalogNext]_vars

---------------------------------------------------------------------------
(* The HyperLogLog: strings are applied to it, and it is replaced by a new one *)

\* how many strings are applied to one HyperLogLog
MaxUpdates == 2

Update ==
    /\ Len(hashed) < MaxUpdates
    /\ \E str \in Strings, garbage \in GarbageBytes :
        LET updated == UpdateString(hll, str, garbage)
        IN  /\ hll' = updated.hll
            /\ key' = str
            /\ hashed' = Append(hashed, [str |-> str, bytes |-> updated.read])
    /\ UNCHANGED <<typeVars, catalogVars>>

\* ~HyperLogLog, then HyperLogLog(precision)
Recreate ==
    /\ hashed # <<>>
    /\ hll' = {}
    /\ key' = <<>>
    /\ hashed' = <<>>
    /\ UNCHANGED <<typeVars, catalogVars>>

HllNext ==
    \/ Update
    \/ Recreate

HllSpec == Init /\ [][HllNext]_vars

---------------------------------------------------------------------------
(* Properties *)

\* The mathematical sum, difference and product of two 32-bit numbers lie in
\* the INTEGER range; stated so that no number outside that range is formed.
SumInRange(a, b) == IF b >= 0 THEN a <= INT32_MAX - b ELSE a >= INT32_MIN - b

DiffInRange(a, b) == IF b >= 0 THEN a >= INT32_MIN + b ELSE a <= INT32_MAX + b

Magnitude(a) == IF a < 0 THEN -a ELSE a

ProdInRange(a, b) ==
    CASE a = 0 \/ b = 0 -> TRUE
      [] a = INT32_MIN -> b = 1
      [] b = INT32_MIN -> a = 1
      [] OTHER ->
           LET x == Magnitude(a)
               y == Magnitude(b)
           IN  \/ x <= INT32_MAX \div y
               \* a negative product may be -2^31 = -(INT32_MAX + 1)
               \/ /\ (a < 0) # (b < 0)
                  /\ y >= 2
                  /\ INT32_MAX % y = y - 1
                  /\ x = (INT32_MAX \div y) + 1

\* the arithmetic invocation in the state stays within the INTEGER range
ArithInRange ==
    CASE op = "Add" -> SumInRange(args[1], args[2])
      [] op = "Sub" -> DiffInRange(args[1], args[2])
      [] op = "Mul" -> ProdInRange(args[1], args[2])

\* its mathematical result (formed only when ArithInRange holds)
ArithExact ==
    CASE op = "Add" -> args[1] + args[2]
      [] op = "Sub" -> args[1] - args[2]
      [] op = "Mul" -> args[1] * args[2]

Returned(names) == pc = "returned" /\ op \in names

\* a delivered Value that is not null: it has no null flag or a false one
NonNull(v) == v # NoValue /\ ~AsBool(IsNull(v))

\* C1: when the mathematical sum (difference, product) of the operands lies
\* in the INTEGER range, Add (Sub, Mul) raises nothing and returns an INTEGER
\* Value whose data is exactly that number, under both error policies.
C1_ExactWhenInRange ==
    (Returned({"Add", "Sub", "Mul"}) /\ ArithInRange) =>
        /\ error = NoError
        /\ result.type.type_id = "INTEGER"
        /\ AsInt(result.val) = ArithExact

\* -65536 * 32768 = INT32_MIN is the smallest product that still fits
C1_Witness ==
    /\ Returned({"Mul"})
    /\ args = <<-65536, 32768>>
    /\ on_error = "ReturnNull"
    /\ error = NoError
    /\ AsInt(result.val) = INT32_MIN

\* C2: under the Exception policy Add, Sub and Mul raise ArithmeticOverflow
\* exactly when the mathematical result leaves the INTEGER range, and then
\* deliver no value.
C2_RaiseIffOverflow ==
    (Returned({"Add", "Sub", "Mul"}) /\ on_error = "Exception") =>
        /\ (error.kind = "ArithmeticOverflow") <=> ~ArithInRange
        /\ error.kind \in {"None", "ArithmeticOverflow"}
        /\ (error.kind = "ArithmeticOverflow") => result = NoValue

\* 46341 * 46341 is the smallest square beyond INT32_MAX
C2_Witness ==
    /\ Returned({"Mul"})
    /\ args = <<46341, 46341>>
    /\ on_error = "Exception"
    /\ error.kind = "ArithmeticOverflow"
    /\ result = NoValue

\* C3: Negate raises ArithmeticOverflow exactly when its operand is
\* INT32_MIN, whatever the error policy, and then delivers no value; for any
\* other operand v it returns the non-null INTEGER -v.
C3_NegateRaisesOnMin ==
    Returned({"Negate"}) =>
        IF args[1] = INT32_MIN
        THEN error.kind = "ArithmeticOverflow" /\ result = NoValue
        ELSE /\ error = NoError
             /\ result.type = IntegerInstance
             /\ NonNull(result)
             /\ AsInt(result.val) = -args[1]

C3_Witness ==
    /\ Returned({"Negate"})
    /\ args = <<INT32_MIN>>
    /\ on_error = "ReturnNull"
    /\ error.kind = "ArithmeticOverflow"

\* C4: with a zero divisor Div and Modulo raise DivideByZero under the
\* Exception policy; under ReturnNull they raise nothing and return an
\* INTEGER Value whose null flag is set.
C4_ZeroDivisor ==
    (Returned({"Div", "Modulo"}) /\ args[2] = 0) =>
        IF on_error = "Exception"
        THEN error.kind = "DivideByZero" /\ result = NoValue
        ELSE /\ error = NoError
             /\ result.type.type_id = "INTEGER"
             /\ result.null # nullptr
             /\ AsBool(result.null)

C4_Witness ==
    /\ Returned({"Modulo"})
    /\ args = <<INT32_MIN, 0>>
    /\ on_error = "ReturnNull"
    /\ error = NoError
    /\ AsBool(IsNull(result))

\* The quotient a / b rounded toward zero, from the magnitudes of a and b
\* (b # 0, and not INT32_MIN / -1, whose quotient 2^31 is no INTEGER).
ExpectedQuot(a, b) ==
    CASE b = INT32_MIN -> IF a = INT32_MIN THEN 1 ELSE 0
      [] a = INT32_MIN ->
           \* -(2^31 \div |b|), from INT32_MAX = 2^31 - 1
           LET y == Magnitude(b)
               nq == -(INT32_MAX \div y) - (IF INT32_MAX % y = y - 1 THEN 1 ELSE 0)
           IN  IF b > 0 THEN nq ELSE -nq
      [] OTHER ->
           LET q == Magnitude(a) \div Magnitude(b)
           IN  IF (a < 0) = (b < 0) THEN q ELSE -q

QuotRepresentable(a, b) == ~(a = INT32_MIN /\ b = -1)

\* a - (a / b) * b; the remainder of INT32_MIN by -1 is 0
ExpectedRem(a, b) ==
    IF QuotRepresentable(a, b) THEN a - ExpectedQuot(a, b) * b ELSE 0

\* C5 (as claimed): for every a and every b # 0, INT32_MIN and -1 included,
\* Div returns the non-null INTEGER a / b rounded toward zero and Modulo the
\* non-null INTEGER a % b, whose sign is that of the dividend (or zero),
\* under either policy.
C5_QuotientAndRemainder ==
    (Returned({"Div", "Modulo"}) /\ args[2] # 0) =>
        /\ error = NoError
        /\ NonNull(result)
        /\ result.type.type_id = "INTEGER"
        /\ op = "Div" =>
             /\ QuotRepresentable(args[1], args[2])
             /\ AsInt(result.val) = ExpectedQuot(args[1], args[2])
        /\ op = "Modulo" =>
             /\ AsInt(result.val) = ExpectedRem(args[1], args[2])
             /\ AsInt(result.val) = 0 \/ (AsInt(result.val) < 0) = (args[1] < 0)

NegMagnitude(a) == IF a > 0 THEN -a ELSE a

\* Wherever sdiv and srem are defined, Div and Modulo do deliver the
\* quotient rounded toward zero and the remainder with the dividend's sign.
DivModWhereDefined ==
    (Returned({"Div", "Modulo"}) /\ args[2] # 0
        /\ QuotRepresentable(args[1], args[2])) =>
        /\ error = NoError
        /\ NonNull(result)
        /\ result.type.type_id = "INTEGER"
        /\ op = "Div" => AsInt(result.val) = ExpectedQuot(args[1], args[2])
        /\ op = "Modulo" =>
             /\ AsInt(result.val) = ExpectedRem(args[1], args[2])
             /\ AsInt(result.val) = 0 \/ (AsInt(result.val) < 0) = (args[1] < 0)
             /\ NegMagnitude(AsInt(result.val)) > NegMagnitude(args[2])

Comparisons == {"CompareLt", "CompareLte", "CompareEq", "CompareNe", "CompareGt", "CompareGte"}

\* the native signed comparison an invocation stands for
NativeComparison ==
    CASE op = "CompareLt" -> args[1] < args[2]
      [] op = "CompareLte" -> args[1] <= args[2]
      [] op = "CompareEq" -> args[1] = args[2]
      [] op = "CompareNe" -> args[1] # args[2]
      [] op = "CompareGt" -> args[1] > args[2]
      [] op = "CompareGte" -> args[1] >= args[2]

\* how many of Lt, Eq, Gt hold of the operands in the state
TrueAmongLtEqGt ==
    Cardinality({i \in 1 .. 3 :
        AsBool((CASE i = 1 -> CompareLtImpl(left, right)
                  [] i = 2 -> CompareEqImpl(left, right)
                  [] i = 3 -> CompareGtImpl(left, right)).value.val)})

\* C7: each of the six comparisons returns a non-null BOOLEAN equal to the
\* signed comparison of its operands, and exactly one of Lt, Eq, Gt is true
\* of any pair of operands.
C7_SignedComparisons ==
    Returned(Comparisons) =>
        /\ error = NoError
        /\ result.type = BooleanInstance
        /\ NonNull(result)
        /\ AsBool(result.val) <=> NativeComparison
        /\ TrueAmongLtEqGt = 1

\* a negative number is below a non-negative one
C7_Witness ==
    /\ Returned({"CompareLt"})
    /\ args = <<INT32_MIN, INT32_MAX>>
    /\ AsBool(result.val)

\* C8: the cast to BIGINT keeps the number (the 64-bit pattern is the sign
\* extension of the 32-bit one), truncating it to 32 bits gives the operand
\* back, and the cast to INTEGER returns the operand's data unchanged.
C8_WidenAndBack ==
    (Returned({"Cast"}) /\ to_type.type_id \in {"BIGINT", "INTEGER"}) =>
        /\ error = NoError
        /\ to_type.type_id = "BIGINT" =>
             /\ result.val.ty = Int64Type
             /\ Len(result.val.bytes) = 8
             /\ FitsInt32(result.val.bytes)
             /\ SignedBytes(TruncBytes(result.val.bytes, 4)) = args[1]
             /\ CreateTrunc(result.val, Int32Type) = left.val
             /\ AsInt(CreateTrunc(result.val, Int32Type)) = args[1]
        /\ to_type.type_id = "INTEGER" =>
             /\ result.val = left.val
             /\ AsInt(result.val) = args[1]

C8_Witness ==
    /\ Returned({"Cast"})
    /\ to_type.type_id = "BIGINT"
    /\ args = <<-1>>
    /\ result.val.bytes = <<255, 255, 255, 255, 255, 255, 255, 255>>

\* the low n bits of v read as a signed number (m = 2^n)
LowBitsSigned(v, m) == IF v % m >= m \div 2 THEN (v % m) - m ELSE v % m

\* C9: the cast to BOOLEAN is true iff the lowest bit of the operand is 1
\* (300 and every even number cast to false); the casts to TINYINT and
\* SMALLINT give the low 8 and 16 bits read as signed numbers.
C9_NarrowingTruncates ==
    (Returned({"Cast"}) /\ to_type.type_id \in {"BOOLEAN", "TINYINT", "SMALLINT"}) =>
        /\ error = NoError
        /\ to_type.type_id = "BOOLEAN" =>
             /\ result.val.ty = BoolType
             /\ AsBool(result.val) <=> (args[1] % 2 = 1)
        /\ to_type.type_id = "TINYINT" =>
             /\ result.val.ty = Int8Type
             /\ Len(result.val.bytes) = 1
             /\ AsInt(result.val) = LowBitsSigned(args[1], 256)
        /\ to_type.type_id = "SMALLINT" =>
             /\ result.val.ty = Int16Type
             /\ Len(result.val.bytes) = 2
             /\ AsInt(result.val) = LowBitsSigned(args[1], 65536)

C9_Witness ==
    /\ Returned({"Cast"})
    /\ to_type.type_id = "BOOLEAN"
    /\ args = <<300>>
    /\ ~AsBool(result.val)

CastDestinations == {"BOOLEAN", "TINYINT", "SMALLINT", "INTEGER", "BIGINT", "DECIMAL"}

C11_CastTakesDestinationType ==
    (Returned({"Cast"}) /\ error = NoError) =>
        /\ result.type = to_type
        /\ to_type.nullable => (result.null = ConstBool(FALSE) /\ NonNull(result))
        /\ ~to_type.nullable => result.null = nullptr

C11_Witness ==
    /\ Returned({"Cast"})
    /\ ~left.type.nullable
    /\ to_type = Type("BIGINT", TRUE)
    /\ result.type = Type("BIGINT", TRUE)
    /\ result.null = ConstBool(FALSE)

\* C16: Abs computes Sub(0, v) under the caller's policy and selects it when
\* v < 0, else v.  For v other than INT32_MIN it returns |v| and raises
\* nothing under either policy; for v = INT32_MIN under the raising policy it
\* raises ArithmeticOverflow, exactly as Sub(0, v) does.
C16_AbsViaSub ==
    Returned({"Abs"}) =>
        LET v == args[1]
            sub == SubImpl(IntValue(0), left, on_error)
        IN  /\ v # INT32_MIN =>
                /\ error = NoError
                /\ sub.error = NoError
                /\ NonNull(result)
                /\ result.type = IntegerInstance
                /\ AsInt(result.val) = -NegMagnitude(v)
                /\ AsInt(result.val) = (IF v < 0 THEN AsInt(sub.value.val) ELSE v)
            /\ (v = INT32_MIN /\ on_error = "Exception") =>
                /\ error = Error("ArithmeticOverflow", <<>>)
                /\ error = sub.error
                /\ result = NoValue

C16_Witness ==
    /\ Returned({"Abs"})
    /\ args[1] = INT32_MIN
    /\ on_error = "Exception"
    /\ error.kind = "ArithmeticOverflow"

\* Abs of a negative number returns its magnitude under both policies.
C16_NegativeReached ==
    /\ Returned({"Abs"})
    /\ args[1] = -300
    /\ on_error = "ReturnNull"
    /\ AsInt(result.val) = 300

\* the sum, difference and product of two 32-bit integers reduced modulo 2^32
\* into the signed range, computed on integers
WrapAdd(a, b) ==
    CASE a > 0 /\ b > 0 /\ ~SumInRange(a, b) -> (a + INT32_MIN) + (b + INT32_MIN)
      [] a < 0 /\ b < 0 /\ ~SumInRange(a, b) -> (a + INT32_MAX + 1) + (b + INT32_MAX + 1)
      [] OTHER -> a + b

WrapNeg(a) == IF a = INT32_MIN THEN INT32_MIN ELSE -a

WrapSub(a, b) ==
    IF b = INT32_MIN
    THEN WrapAdd(WrapAdd(a, INT32_MAX), 1)
    ELSE WrapAdd(a, -b)

\* x * 2^k reduced modulo 2^32 into the signed range, for 0 < k < 32
WrapShl(x, k) ==
    LET r == x % (2 ^ (32 - k))
        signed == IF r >= 2 ^ (31 - k) THEN r - 2 ^ (32 - k) ELSE r
    IN  signed * (2 ^ k)

\* the product by 11-bit limbs: a = a2 * 2^22 + a1 * 2^11 + a0, likewise b;
\* the limb products of weight 2^33 and above vanish modulo 2^32
WrapMul(a, b) ==
    LET a0 == a % 2048
        a1 == (a \div 2048) % 2048
        a2 == a \div 4194304
        b0 == b % 2048
        b1 == (b \div 2048) % 2048
        b2 == b \div 4194304
        t0 == a0 * b0
        t1 == WrapShl(a0 * b1 + a1 * b0, 11)
        t2 == WrapShl(a0 * b2 + a1 * b1 + a2 * b0, 22)
    IN  WrapAdd(WrapAdd(t0, t1), t2)

Wrapped ==
    CASE op = "Add" -> WrapAdd(args[1], args[2])
      [] op = "Sub" -> WrapSub(args[1], args[2])
      [] op = "Mul" -> WrapMul(args[1], args[2])

\* C17: under the null policy Add, Sub and Mul neither raise nor return null,
\* whether or not the operands overflow: they deliver a non-null INTEGER whose
\* data is the result wrapped modulo 2^32.  Called directly, no operator but
\* Div and Modulo delivers a null under that policy.
C17_WrapsUnderReturnNull ==
    /\ (Returned({"Add", "Sub", "Mul"}) /\ on_error = "ReturnNull") =>
            /\ error = NoError
            /\ NonNull(result)
            /\ result.type = IntegerInstance
            /\ AsInt(result.val) = Wrapped
    /\ (Returned({"Add", "Sub", "Mul", "Abs", "Negate"}) /\ wrapper = "none"
            /\ on_error = "ReturnNull" /\ result # NoValue) =>
            NonNull(result)

C17_Witness ==
    /\ Returned({"Sub"})
    /\ on_error = "ReturnNull"
    /\ ~ArithInRange
    /\ error = NoError
    /\ NonNull(result)
    /\ AsInt(result.val) = Wrapped

\* an overflowing product under the null policy is delivered wrapped
C17_MulReached ==
    /\ Returned({"Mul"})
    /\ on_error = "ReturnNull"
    /\ args = <<65536, 32768>>
    /\ AsInt(result.val) = INT32_MIN

\* the positions of the trace at which an instruction of these opcodes ran
Positions(opcodes) == {i \in DOMAIN trace : trace[i].opcode \in opcodes}

\* C18: in every execution of the code Div and Modulo emit, the zero-test on
\* the right operand runs before any sdiv/srem, and no sdiv/srem runs with a
\* zero divisor: under the raising policy the check that throws runs just
\* before it, under the null policy it runs only in the else block of the
\* branch on the test, whose two arms a phi merges.
C18_ZeroTestGuardsDivision ==
    Returned({"Div", "Modulo"}) =>
        /\ trace # <<>>
        /\ trace[1] = Instr("icmp eq", <<args[2], 0>>)
        /\ \A i \in Positions({"sdiv", "srem"}) :
            /\ trace[i].opcode = (IF op = "Div" THEN "sdiv" ELSE "srem")
            /\ trace[i].operands = args
            /\ trace[i].operands[2] # 0
            /\ i > 1
            /\ on_error = "Exception" => trace[i - 1].opcode = "ThrowIfDivideByZero"
            /\ on_error = "ReturnNull" =>
                /\ trace[i - 1].opcode = "else"
                /\ trace[i - 2].opcode = "br"
                /\ i < Len(trace) => trace[i + 1].opcode = "phi"
        /\ args[2] = 0 => Positions({"sdiv", "srem"}) = {}
        /\ args[2] # 0 => Cardinality(Positions({"sdiv", "srem"})) = 1
        /\ (on_error = "ReturnNull" /\ error = NoError) =>
                trace[Len(trace)].opcode = "phi"

C18_Witness ==
    /\ Returned({"Div", "Modulo"})
    /\ on_error = "ReturnNull"
    /\ args[2] # 0
    /\ Positions({"sdiv", "srem"}) = {4}
    /\ trace[1].opcode = "icmp eq"
    /\ trace[Len(trace)].opcode = "phi"

\* a zero divisor under either policy: the test runs and no sdiv/srem does
C18_ZeroDivisorReached ==
    /\ Returned({"Div", "Modulo"})
    /\ args[2] = 0
    /\ trace[1].opcode = "icmp eq"
    /\ Positions({"sdiv", "srem"}) = {}

ArithSupportQueries ==
    {"AddSupportsTypes", "SubSupportsTypes", "MulSupportsTypes", "DivSupportsTypes",
     "ModuloSupportsTypes"}

\* C13: SupportsTypes(left, right) of the INTEGER comparison and of Add, Sub,
\* Mul, Div and Modulo is true if and only if left and right have the
\* identical SqlType and it is INTEGER, whatever the nullability of either.
C13_SupportsIffIntegerSqlType ==
    Returned(ArithSupportQueries \cup {"CompareSupportsTypes"}) =>
        (answer <=> (from_type.type_id = "INTEGER" /\ to_type.type_id = "INTEGER"))

\* What the code answers: the arithmetic operators support two INTEGER Types
\* of the same nullability, the comparison two non-nullable INTEGER Types;
\* identical INTEGER SqlType is necessary for both.
SupportsAsCoded ==
    /\ Returned(ArithSupportQueries) =>
            (answer <=> (from_type.type_id = "INTEGER" /\ to_type.type_id = "INTEGER"
                            /\ from_type.nullable = to_type.nullable))
    /\ Returned({"CompareSupportsTypes"}) =>
            (answer <=> (from_type = Type("INTEGER", FALSE) /\ to_type = Type("INTEGER", FALSE)))
    /\ (Returned(ArithSupportQueries \cup {"CompareSupportsTypes"}) /\ answer) =>
            (from_type.type_id = "INTEGER" /\ to_type.type_id = "INTEGER")

\* nullable INTEGER with non-nullable INTEGER is turned down by Add
MixedNullabilityRejected ==
    /\ Returned({"AddSupportsTypes"})
    /\ from_type = Type("INTEGER", TRUE)
    /\ to_type = Type("INTEGER", FALSE)
    /\ ~answer

UnaryEvals == {"NegateEval", "AbsEval", "CeilEval", "FloorEval", "SqrtEval"}
BinaryEvals == {"AddEval", "SubEval", "MulEval", "DivEval", "ModuloEval"}

\* the operands of the wrapped call that returned
Operands == IF op \in BinaryEvals THEN <<left, right>> ELSE <<left>>

\* the outcomes the concrete Impl of the wrapped operator has on the operands
ImplOutcomes ==
    CASE op = "NegateEval" -> {NegateImpl(left, on_error)}
      [] op = "AbsEval" -> {AbsImpl(left, on_error)}
      [] op = "CeilEval" -> {CeilImpl(left, on_error)}
      [] op = "FloorEval" -> {FloorImpl(left, on_error)}
      [] op = "SqrtEval" -> {SqrtImpl(left, on_error)}
      [] op = "AddEval" -> {AddImpl(left, right, on_error)}
      [] op = "SubEval" -> {SubImpl(left, right, on_error)}
      [] op = "MulEval" -> {MulImpl(left, right, on_error)}
      [] op = "DivEval" -> {DivImpl(left, right, on_error, ub) : ub \in UBChoices}
      [] op = "ModuloEval" -> {ModuloImpl(left, right, on_error, ub) : ub \in UBChoices}

\* a null operand makes the result null and nothing is raised
NullOperandGivesNull ==
    AsBool(AnyNull(Operands)) =>
        /\ error.kind \notin {"ArithmeticOverflow", "DivideByZero"}
        /\ error = NoError
        /\ result # NoValue
        /\ AsBool(IsNull(result))

\* operands without null handles get the outcome of the concrete Impl
NoHandleGivesImpl ==
    ~CarriesNullHandle(Operands) => [error |-> error, value |-> result] \in ImplOutcomes

\* C12: for every null-wrapped unary or binary INTEGER operator, if any
\* operand's null flag is set at run time the wrapped call yields a Value
\* whose null flag is set and raises neither ArithmeticOverflow nor
\* DivideByZero on account of the null operand's data; if no operand carries
\* a null flag the concrete Impl result is returned unchanged.
C12_NullPropagation ==
    Returned(UnaryEvals \cup BinaryEvals) =>
        /\ NullOperandGivesNull
        /\ NoHandleGivesImpl

\* The claim holds of every wrapped call that is emitted as a branch and of
\* every call on operands without null handles; whatever the strategy, a
\* delivered result keeps the operator's result type, as a nullable Type
\* when a null path exists.
NullPropagationWhenBranching ==
    Returned(UnaryEvals \cup BinaryEvals) =>
        /\ wrapper # "eager" => (NullOperandGivesNull /\ NoHandleGivesImpl)
        /\ NoHandleGivesImpl
        /\ result # NoValue => result.type.type_id = to_type.type_id
        /\ (result # NoValue /\ AsBool(AnyNull(Operands))) => AsBool(IsNull(result))

\* the null INTEGER, whose data is INT32_MIN, negated by code that computes
\* the non-null path unconditionally: the overflow check raises
EagerNegateOfNullRaises ==
    /\ Returned({"NegateEval"})
    /\ wrapper = "eager"
    /\ left = GetNullValue
    /\ error = Error("ArithmeticOverflow", <<>>)

\* a null divisor whose data is 0 under the raising policy
EagerDivByNullRaises ==
    /\ Returned({"DivEval"})
    /\ wrapper = "eager"
    /\ AsBool(IsNull(right))
    /\ error = Error("DivideByZero", <<>>)

\* a null operand of a branching wrapper yields the null of the result type
BranchingNullReached ==
    /\ Returned({"SqrtEval"})
    /\ wrapper = "branch"
    /\ AsBool(IsNull(left))
    /\ error = NoError
    /\ AsBool(IsNull(result))
    /\ result.type = Type("DECIMAL", TRUE)

\* C14: once the Catalog is constructed, looking up the namespace
\* "pg_catalog" in the default database returns an existing entry whose
\* "oid" column holds 1012 and whose "nspname" column holds 22222.
C14_PgCatalogEntry ==
    (catalog.constructed /\ entry.name = "pg_catalog") =>
        /\ entry.found
        /\ entry.oid = 1012
        /\ entry.nspname = 22222

\* What the lookup returns: the entry exists, its nspname is 22222 and its
\* oid is the ninth oid of the Catalog, the one BootstrapDatabase draws with
\* GetNextNamepsaceOid after the eight that the tables and columns took.
PgCatalogEntryAsCoded ==
    (catalog.constructed /\ entry.name = "pg_catalog") =>
        /\ entry.found
        /\ entry.oid = START_OID + 8
        /\ entry.oid = catalog.issued[9].oid
        /\ catalog.issued[9].kind = "namespace"
        /\ entry.nspname = 22222

PgCatalogFound ==
    /\ catalog.constructed
    /\ entry.found
    /\ entry.name = "pg_catalog"
    /\ entry.oid = 1009

\* C19: the four allocators draw from one counter that starts at START_OID
\* and only increases: every oid handed out is distinct and one more than
\* the one before it, whichever allocator is called, so the oids that
\* Bootstrap hands out are a fixed sequence.
C19_OneSharedCounter ==
    catalog.constructed =>
        /\ \A i \in DOMAIN catalog.issued : catalog.issued[i].oid = START_OID + (i - 1)
        /\ \A i, j \in DOMAIN catalog.issued :
                i < j => catalog.issued[i].oid < catalog.issued[j].oid
        /\ catalog.oid_ = START_OID + Len(catalog.issued)
        /\ Len(catalog.issued) >= BootstrapCalls
        /\ [i \in 1 .. 9 |-> catalog.issued[i].kind]
                = <<"table", "col", "col", "table", "col", "table", "col", "col", "namespace">>
        /\ catalog.pg_database_.oid = START_OID
        /\ catalog.pg_tablespace_.oid = START_OID + 3
        /\ catalog.name_map_[DEFAULT_DATABASE_OID]["pg_namespace"] = START_OID + 5

C19_Witness ==
    /\ catalog.constructed
    /\ Len(catalog.issued) = BootstrapCalls + 3
    /\ catalog.issued[BootstrapCalls + 1].kind = "db"
    /\ catalog.issued[BootstrapCalls + 2].kind = "col"
    /\ catalog.issued[BootstrapCalls + 3].kind = "namespace"
    /\ catalog.issued[BootstrapCalls + 3].oid = catalog.issued[BootstrapCalls + 1].oid + 2

\* C15: Update(const std::string &) hashes exactly the str.size() bytes of
\* the string's content: two strings that differ in any character are
\* hashed from different inputs, and no byte beyond the content is read.
C15_HashesWholeContent ==
    /\ \A i \in DOMAIN hashed : hashed[i].bytes = hashed[i].str
    /\ \A i, j \in DOMAIN hashed :
            hashed[i].str # hashed[j].str => hashed[i].bytes # hashed[j].bytes

\* What Update hashes: sizeof(size_t) bytes from str.data(), whatever the
\* length of the string: the first eight characters of a long string, and
\* the content, the terminator and what lies behind it of a short one.
HashesSizeofSizeT ==
    /\ \A i \in DOMAIN hashed :
        LET str == hashed[i].str
            bytes == hashed[i].bytes
        IN  /\ Len(bytes) = SizeofSizeT
            /\ \A k \in 1 .. SizeofSizeT :
                /\ k <= Len(str) => bytes[k] = str[k]
                /\ k = Len(str) + 1 => bytes[k] = 0
                /\ k > Len(str) + 1 => bytes[k] \in GarbageBytes
    /\ hll = {[hash_of |-> hashed[i].bytes] : i \in DOMAIN hashed}

\* two strings that differ in their ninth character count as one key
LongStringsCollide ==
    /\ Len(hashed) = 2
    /\ Len(hashed[1].str) = 9
    /\ Len(hashed[2].str) = 9
    /\ hashed[1].str # hashed[2].str
    /\ Cardinality(hll) = 1

\* one short string applied twice counts as two keys
ShortStringTwice ==
    /\ Len(hashed) = 2
    /\ hashed[1].str = hashed[2].str
    /\ Len(hashed[1].str) = 3
    /\ Cardinality(hll) = 2

====
